---- MODULE Spec2Model ----
(***************************************************************************)
(* A model of the radix tree of radix.go.                                  *)
(*                                                                         *)
(* A Go string is a sequence of bytes; the bytes '0' and '1' are the       *)
(* numbers 48 and 49.  A *node is a record [leaf, prefix, edges]: leaf is  *)
(* <<>> for a nil *LeafNode and <<[Key, Val]>> otherwise, edges is the     *)
(* slice of [label, node] records.  Every node is referenced by exactly    *)
(* one edge, so the in-place updates of the code through the pointers      *)
(* parent and n are the replacement of a subtree on the path from the      *)
(* root.  The interface{} value nil is Nil.                                *)
(***************************************************************************)
EXTENDS Integers, Sequences, FiniteSets, TLC

\* ------------------------------------------------------------ bounds
MaxLen == 2      \* longest key, prefix or query the environment uses
MaxSize == 3     \* Insert of a new key is offered while fewer entries are stored
MaxVal == 2      \* stored values are 1..MaxVal

\* ------------------------------------------------------------ constants
Zero == 48
One == 49
Nil == 0

Alphabet == {Zero, One}
Vals == 1..MaxVal
StrUpTo(l) == UNION {[1..i -> Alphabet] : i \in 0..l}
Keys == StrUpTo(MaxLen)

\* ------------------------------------------------------------ strings
\* s[i:] and s[:i] of Go, with Go's 0-based i
From(s, i) == SubSeq(s, i + 1, Len(s))
Upto(s, i) == SubSeq(s, 1, i)
HasPrefix(s, p) == Len(p) <= Len(s) /\ SubSeq(s, 1, Len(p)) = p

Min(a, b) == IF a < b THEN a ELSE b

RECURSIVE lpLoop(_, _, _, _)
lpLoop(k1, k2, i, max) ==
    IF i < max /\ k1[i + 1] = k2[i + 1] THEN lpLoop(k1, k2, i + 1, max) ELSE i

\* a comparison loop that never breaks on a mismatch
longestPrefix_noMismatch(k1, k2) == Min(Len(k1), Len(k2))

longestPrefix(k1, k2) == lpLoop(k1, k2, 0, Min(Len(k1), Len(k2)))

\* ------------------------------------------------------------ nodes
NoLeaf == <<>>
LeafNode(k, v) == <<[Key |-> k, Val |-> v]>>
EmptyNode == [leaf |-> NoLeaf, prefix |-> <<>>, edges |-> <<>>]
edge(l, n) == [label |-> l, node |-> n]

isLeaf(n) == n.leaf # NoLeaf

\* sort.Search(num, edges[i].label >= label): the least such index, num if none
\* (1-based here, so Len + 1 if none)
RECURSIVE searchFrom(_, _, _)
searchFrom(es, label, i) ==
    IF i > Len(es) THEN i
    ELSE IF es[i].label >= label THEN i
    ELSE searchFrom(es, label, i + 1)

Search(es, label) == searchFrom(es, label, 1)

\* index of the edge of n with this label, 0 if there is none (getEdge's nil)
edgeIdx(n, label) ==
    LET idx == Search(n.edges, label)
    IN  IF idx <= Len(n.edges) /\ n.edges[idx].label = label THEN idx ELSE 0

getEdge(n, label) == n.edges[edgeIdx(n, label)].node

\* edges.Sort: ascending by label
RECURSIVE SortEdges(_)
SortEdges(es) ==
    IF Len(es) <= 1 THEN es
    ELSE LET m == CHOOSE i \in 1..Len(es) :
                      \A j \in 1..Len(es) :
                          es[i].label < es[j].label
                          \/ (es[i].label = es[j].label /\ i <= j)
             rest == [j \in 1..(Len(es) - 1) |-> IF j < m THEN es[j] ELSE es[j + 1]]
         IN  <<es[m]>> \o SortEdges(rest)

\* an addEdge that appends without sorting
addEdge_unsorted(n, e) == [n EXCEPT !.edges = Append(n.edges, e)]

addEdge(n, e) == [n EXCEPT !.edges = SortEdges(Append(n.edges, e))]

\* an updateEdge whose search compares with > and so never finds the label
updateEdge_strictSearch(n, label, node) ==
    LET idx == Search(n.edges, label + 1)
    IN  IF idx <= Len(n.edges) /\ n.edges[idx].label = label
        THEN [n |-> [n EXCEPT !.edges[idx].node = node], panic |-> FALSE]
        ELSE [n |-> n, panic |-> TRUE]

\* updateEdge panics when the label has no edge
updateEdge(n, label, node) ==
    LET idx == Search(n.edges, label)
    IN  IF idx <= Len(n.edges) /\ n.edges[idx].label = label
        THEN [n |-> [n EXCEPT !.edges[idx].node = node], panic |-> FALSE]
        ELSE [n |-> n, panic |-> TRUE]

delEdge(n, label) ==
    LET idx == Search(n.edges, label)
    IN  IF idx <= Len(n.edges) /\ n.edges[idx].label = label
        THEN [n EXCEPT !.edges =
                 [j \in 1..(Len(n.edges) - 1) |->
                     IF j < idx THEN n.edges[j] ELSE n.edges[j + 1]]]
        ELSE n

\* mergeChild reads n.edges[0]: with no edge that is an index-out-of-range
\* panic, with several edges the others are dropped.  A merge of a node that
\* has not exactly one edge leaves the field badMerge in the merged node, and
\* a merge with a node that carries it keeps it.
isBadMerge(n) == "badMerge" \in DOMAIN n

\* a merge that keeps the node's own prefix
mergeChild_keepsPrefix(n) ==
    LET child == n.edges[1].node
    IN  [leaf |-> child.leaf, prefix |-> n.prefix, edges |-> child.edges]

mergeChild(n) ==
    LET child == IF Len(n.edges) = 0 THEN EmptyNode ELSE n.edges[1].node
        merged == [leaf |-> child.leaf,
                   prefix |-> n.prefix \o child.prefix,
                   edges |-> child.edges]
    IN  IF Len(n.edges) = 1 /\ ~isBadMerge(n) /\ ~isBadMerge(child)
        THEN merged
        ELSE [leaf |-> merged.leaf, prefix |-> merged.prefix, edges |-> merged.edges,
              badMerge |-> TRUE]

\* ------------------------------------------------------------ Insert
\* One iteration of Insert's loop at node n (the code's n at the top of the
\* loop) with the remaining search key; the result is n as the call leaves it.
RECURSIVE insertAt(_, _, _, _)
insertAt(n, search, s, v) ==
    IF Len(search) = 0
    THEN IF isLeaf(n)
         THEN [n |-> [n EXCEPT !.leaf = LeafNode(n.leaf[1].Key, v)],
               old |-> n.leaf[1].Val, updated |-> TRUE, grow |-> 0, panic |-> FALSE]
         ELSE [n |-> [n EXCEPT !.leaf = LeafNode(s, v)],
               old |-> Nil, updated |-> FALSE, grow |-> 1, panic |-> FALSE]
    ELSE
    LET idx == edgeIdx(n, search[1]) IN
    IF idx = 0
    THEN [n |-> addEdge(n, edge(search[1],
                   [leaf |-> LeafNode(s, v), prefix |-> search, edges |-> <<>>])),
          old |-> Nil, updated |-> FALSE, grow |-> 1, panic |-> FALSE]
    ELSE
    LET c == n.edges[idx].node
        commonPrefix == longestPrefix(search, c.prefix)
    IN
    IF commonPrefix = Len(c.prefix)
    THEN LET r == insertAt(c, From(search, commonPrefix), s, v)
         IN  [r EXCEPT !.n = [n EXCEPT !.edges[idx].node = r.n]]
    ELSE
    \* split the node
    LET rest == From(search, commonPrefix)
        restored == [c EXCEPT !.prefix = From(c.prefix, commonPrefix)]
        child0 == addEdge([leaf |-> NoLeaf,
                           prefix |-> Upto(search, commonPrefix),
                           edges |-> <<>>],
                          edge(c.prefix[commonPrefix + 1], restored))
        child == IF Len(rest) = 0
                 THEN [child0 EXCEPT !.leaf = LeafNode(s, v)]
                 ELSE addEdge(child0, edge(rest[1],
                         [leaf |-> LeafNode(s, v), prefix |-> rest, edges |-> <<>>]))
        u == updateEdge(n, search[1], child)
    IN  [n |-> u.n, old |-> Nil, updated |-> FALSE, grow |-> 1, panic |-> u.panic]

\* an Insert that counts every call, also the update of a stored key
Insert_countsUpdates(t, s, v) ==
    LET r == insertAt(t.root, s, s, v)
    IN  [root |-> r.n, size |-> t.size + 1,
         val |-> r.old, ok |-> r.updated, panic |-> r.panic]

\* Insert on the tree t = [root, size]
Insert(t, s, v) ==
    LET r == insertAt(t.root, s, s, v)
    IN  [root |-> r.n, size |-> t.size + r.grow,
         val |-> r.old, ok |-> r.updated, panic |-> r.panic]

\* ------------------------------------------------------------ Get
RECURSIVE getAt(_, _)
getAt(n, search) ==
    IF Len(search) = 0
    THEN IF isLeaf(n) THEN [val |-> n.leaf[1].Val, ok |-> TRUE]
                      ELSE [val |-> Nil, ok |-> FALSE]
    ELSE
    LET idx == edgeIdx(n, search[1]) IN
    IF idx = 0 THEN [val |-> Nil, ok |-> FALSE]
    ELSE IF HasPrefix(search, n.edges[idx].node.prefix)
         THEN getAt(n.edges[idx].node, From(search, Len(n.edges[idx].node.prefix)))
         ELSE [val |-> Nil, ok |-> FALSE]

Get(t, s) == getAt(t.root, s)

Len_(t) == t.size

\* New: NewFromMap(nil)
New == [root |-> EmptyNode, size |-> 0]

\* ------------------------------------------------------------ walks
\* recursiveWalk(n, fn).  The visitor fn is the set stop of the keys on which
\* it returns true; the result is the sequence of the leaves fn was called
\* with and recursiveWalk's own return value.
RECURSIVE recursiveWalk(_, _)
RECURSIVE walkEdges(_, _, _)
walkEdges(es, i, stop) ==
    IF i > Len(es) THEN [visited |-> <<>>, abort |-> FALSE]
    ELSE LET r == recursiveWalk(es[i].node, stop)
         IN  IF r.abort THEN r
             ELSE LET q == walkEdges(es, i + 1, stop)
                  IN  [visited |-> r.visited \o q.visited, abort |-> q.abort]

recursiveWalk(n, stop) ==
    IF isLeaf(n) /\ n.leaf[1].Key \in stop
    THEN [visited |-> n.leaf, abort |-> TRUE]
    ELSE LET q == walkEdges(n.edges, 1, stop)
         IN  [visited |-> n.leaf \o q.visited, abort |-> q.abort]

\* ------------------------------------------------------------ Delete
\* a DELETE: block that clears the entry only when it detaches the node
deleteChild_keepsInnerLeaf(parent, idx, parentIsRoot) ==
    LET n == parent.edges[idx].node
        label == parent.edges[idx].label
        p1 == IF Len(n.edges) = 0 THEN delEdge(parent, label) ELSE parent
    IN  IF ~parentIsRoot /\ Len(p1.edges) = 1 /\ ~isLeaf(p1)
        THEN mergeChild(p1) ELSE p1

\* The DELETE: block for the node n = parent.edges[idx].node reached with the
\* label parent.edges[idx].label; the result is the parent as the call leaves it.
deleteChild(parent, idx, parentIsRoot) ==
    LET n == parent.edges[idx].node
        label == parent.edges[idx].label
        n1 == [n EXCEPT !.leaf = NoLeaf]
        \* parent != nil && len(n.edges) == 0
        p1 == IF Len(n1.edges) = 0 THEN delEdge(parent, label)
              ELSE [parent EXCEPT !.edges[idx].node =
                       \* n != t.root && len(n.edges) == 1
                       IF Len(n1.edges) = 1 THEN mergeChild(n1) ELSE n1]
    IN  \* parent != t.root && len(parent.edges) == 1 && !parent.isLeaf()
        IF ~parentIsRoot /\ Len(p1.edges) = 1 /\ ~isLeaf(p1)
        THEN mergeChild(p1) ELSE p1

\* a Delete loop that follows the edge without comparing the child's prefix
RECURSIVE deleteAt_ignoresMismatch(_, _, _)
deleteAt_ignoresMismatch(n, search, nIsRoot) ==
    LET idx == edgeIdx(n, search[1])
        miss == [n |-> n, val |-> Nil, ok |-> FALSE]
    IN
    IF idx = 0 THEN miss
    ELSE
    LET c == n.edges[idx].node
        rest == From(search, Min(Len(c.prefix), Len(search)))
    IN
    IF Len(rest) = 0
    THEN IF ~isLeaf(c) THEN miss
         ELSE [n |-> deleteChild(n, idx, nIsRoot), val |-> c.leaf[1].Val, ok |-> TRUE]
    ELSE LET r == deleteAt_ignoresMismatch(c, rest, FALSE)
         IN  [r EXCEPT !.n = [n EXCEPT !.edges[idx].node = r.n]]

\* Delete's loop from the node n (the code's parent after "parent = n") with a
\* non-empty remaining search key.
RECURSIVE deleteAt(_, _, _)
deleteAt(n, search, nIsRoot) ==
    LET idx == edgeIdx(n, search[1])
        miss == [n |-> n, val |-> Nil, ok |-> FALSE]
    IN
    IF idx = 0 THEN miss
    ELSE
    LET c == n.edges[idx].node IN
    IF ~HasPrefix(search, c.prefix) THEN miss
    ELSE
    LET rest == From(search, Len(c.prefix)) IN
    IF Len(rest) = 0
    THEN IF ~isLeaf(c) THEN miss
         ELSE [n |-> deleteChild(n, idx, nIsRoot), val |-> c.leaf[1].Val, ok |-> TRUE]
    ELSE LET r == deleteAt(c, rest, FALSE)
         IN  [r EXCEPT !.n = [n EXCEPT !.edges[idx].node = r.n]]

Delete(t, s) ==
    IF Len(s) = 0
    THEN \* the key is exhausted at the root: parent == nil, n == t.root
         IF ~isLeaf(t.root)
         THEN [root |-> t.root, size |-> t.size, val |-> Nil, ok |-> FALSE]
         ELSE [root |-> [t.root EXCEPT !.leaf = NoLeaf], size |-> t.size - 1,
               val |-> t.root.leaf[1].Val, ok |-> TRUE]
    ELSE LET r == deleteAt(t.root, s, TRUE)
         IN  [root |-> r.n, size |-> IF r.ok THEN t.size - 1 ELSE t.size,
              val |-> r.val, ok |-> r.ok]

\* ------------------------------------------------------------ DeletePrefix
\* a count of the node's own entry only, without the traversal
clearSubtree_countsOwnEntry(n) ==
    [n |-> [n EXCEPT !.leaf = NoLeaf, !.edges = <<>>],
     count |-> IF isLeaf(n) THEN 1 ELSE 0]

\* deletePrefix(parent, n, "") : n as the call leaves it, and the count
clearSubtree(n) ==
    [n |-> [n EXCEPT !.leaf = NoLeaf, !.edges = <<>>],
     count |-> Len(recursiveWalk(n, {}).visited)]

\* deletePrefix(parent, n, prefix) with a non-empty prefix; the result is n as
\* the call leaves it (the recursive call on child changes child and,
\* through its parent argument, n).
RECURSIVE deletePrefixAt(_, _, _)
deletePrefixAt(n, prefix, nIsRoot) ==
    LET idx == edgeIdx(n, prefix[1]) IN
    IF idx = 0 THEN [n |-> n, count |-> 0]
    ELSE
    LET child == n.edges[idx].node IN
    IF ~HasPrefix(child.prefix, prefix) /\ ~HasPrefix(prefix, child.prefix)
    THEN [n |-> n, count |-> 0]
    ELSE
    LET rest == IF Len(child.prefix) > Len(prefix)
                THEN From(prefix, Len(prefix))
                ELSE From(prefix, Len(child.prefix))
    IN
    IF Len(rest) = 0
    THEN LET r == clearSubtree(child)
             n1 == [n EXCEPT !.edges[idx].node = r.n]
         IN  [n |-> IF ~nIsRoot /\ Len(n1.edges) = 1 /\ ~isLeaf(n1)
                    THEN mergeChild(n1) ELSE n1,
              count |-> r.count]
    ELSE LET r == deletePrefixAt(child, rest, FALSE)
         IN  [r EXCEPT !.n = [n EXCEPT !.edges[idx].node = r.n]]

\* deletePrefix's descent takes the len(child.prefix) > len(prefix) branch:
\* the prefix ends strictly inside the prefix of the edge it follows last
RECURSIVE endsInsideEdge(_, _)
endsInsideEdge(n, prefix) ==
    IF Len(prefix) = 0 THEN FALSE
    ELSE
    LET idx == edgeIdx(n, prefix[1]) IN
    IF idx = 0 THEN FALSE
    ELSE
    LET child == n.edges[idx].node IN
    IF ~HasPrefix(child.prefix, prefix) /\ ~HasPrefix(prefix, child.prefix) THEN FALSE
    ELSE IF Len(child.prefix) > Len(prefix) THEN TRUE
    ELSE endsInsideEdge(child, From(prefix, Len(child.prefix)))

\* a deletePrefix without the len(child.prefix) > len(prefix) case: a prefix
\* that ends inside an edge matches nothing
DeletePrefix_boundaryOnly(t, s) ==
    LET r == IF Len(s) = 0 THEN clearSubtree(t.root)
             ELSE deletePrefixAt(t.root, s, TRUE)
    IN  IF endsInsideEdge(t.root, s)
        THEN [root |-> t.root, size |-> t.size, count |-> 0]
        ELSE [root |-> r.n, size |-> t.size - r.count, count |-> r.count]

DeletePrefix(t, s) ==
    LET r == IF Len(s) = 0 THEN clearSubtree(t.root)
             ELSE deletePrefixAt(t.root, s, TRUE)
    IN  [root |-> r.n, size |-> t.size - r.count, count |-> r.count]

\* ------------------------------------------------------------ LongestPrefix
\* longestPrefix's loop at node n; last is the remembered node, <<>> for nil
RECURSIVE longestPrefixAt(_, _, _)
longestPrefixAt(n, search, last0) ==
    LET last1 == IF isLeaf(n) THEN <<n>> ELSE last0 IN
    IF Len(search) = 0 THEN last1
    ELSE
    LET idx == edgeIdx(n, search[1]) IN
    IF idx = 0 THEN last1
    ELSE IF HasPrefix(search, n.edges[idx].node.prefix)
         THEN longestPrefixAt(n.edges[idx].node,
                              From(search, Len(n.edges[idx].node.prefix)), last1)
         ELSE last1

\* a longestPrefix that stops at the first entry it meets: a stored empty key
\* ends the descent at the root
longestPrefixNode_firstMatch(t, s) ==
    LET l == IF isLeaf(t.root) THEN <<t.root>> ELSE longestPrefixAt(t.root, s, <<>>)
    IN  IF l # <<>>
        THEN [key |-> l[1].leaf[1].Key, val |-> l[1].leaf[1].Val, ok |-> TRUE, node |-> l]
        ELSE [key |-> <<>>, val |-> Nil, ok |-> FALSE, node |-> <<>>]

\* Tree.longestPrefix: (key, val, pres, node)
longestPrefixNode(t, s) ==
    LET l == longestPrefixAt(t.root, s, <<>>)
    IN  IF l # <<>>
        THEN [key |-> l[1].leaf[1].Key, val |-> l[1].leaf[1].Val, ok |-> TRUE, node |-> l]
        ELSE [key |-> <<>>, val |-> Nil, ok |-> FALSE, node |-> <<>>]

LongestPrefix(t, s) ==
    LET r == longestPrefixNode(t, s) IN [key |-> r.key, val |-> r.val, ok |-> r.ok]

\* ------------------------------------------------------------ FirstNonIncludedPrefix
invert_binary_label(b) == IF b = One THEN <<Zero>> ELSE <<One>>

FirstNonIncludedPrefix(t, s) ==
    LET r == longestPrefixNode(t, s) IN
    IF r.ok /\ Len(r.node[1].edges) = 0
    THEN [key |-> r.node[1].leaf[1].Key, ok |-> TRUE]
    ELSE IF r.ok /\ Len(r.node[1].edges) = 1
    THEN [key |-> r.node[1].leaf[1].Key \o invert_binary_label(r.node[1].edges[1].label),
          ok |-> TRUE]
    ELSE [key |-> <<>>, ok |-> FALSE]

\* ------------------------------------------------------------ WalkPrefix
\* the sequence of leaves the visitor is called with
RECURSIVE walkPrefixAt(_, _, _)
walkPrefixAt(n, search, stop) ==
    IF Len(search) = 0 THEN recursiveWalk(n, stop).visited
    ELSE
    LET idx == edgeIdx(n, search[1]) IN
    IF idx = 0 THEN <<>>
    ELSE
    LET c == n.edges[idx].node IN
    IF HasPrefix(search, c.prefix) THEN walkPrefixAt(c, From(search, Len(c.prefix)), stop)
    ELSE IF HasPrefix(c.prefix, search) THEN recursiveWalk(c, stop).visited
    ELSE <<>>

WalkPrefix(t, prefix, stop) == walkPrefixAt(t.root, prefix, stop)

\* ------------------------------------------------------------ Walk_post
\* recursiveWalk_postOrder: ret is the returned slice, calls the sequence of
\* the visitor's calls [parent, children] in the order they are made
RECURSIVE recursiveWalk_postOrder(_)
RECURSIVE postEdges(_, _)
postEdges(es, i) ==
    IF i > Len(es) THEN [all |-> <<>>, calls |-> <<>>]
    ELSE LET r == recursiveWalk_postOrder(es[i].node)
             q == postEdges(es, i + 1)
         IN  [all |-> r.ret \o q.all, calls |-> r.calls \o q.calls]

recursiveWalk_postOrder(n) ==
    LET c == postEdges(n.edges, 1) IN
    IF ~isLeaf(n) THEN [ret |-> c.all, calls |-> c.calls]
    ELSE [ret |-> n.leaf,
          calls |-> Append(c.calls, [parent |-> n.leaf[1], children |-> c.all])]

\* a walk that calls the visitor on a node before it descends, with the
\* children it collects afterwards
RECURSIVE walkParentFirst(_)
RECURSIVE parentFirstEdges(_, _)
parentFirstEdges(es, i) ==
    IF i > Len(es) THEN [all |-> <<>>, calls |-> <<>>]
    ELSE LET r == walkParentFirst(es[i].node)
             q == parentFirstEdges(es, i + 1)
         IN  [all |-> r.ret \o q.all, calls |-> r.calls \o q.calls]

walkParentFirst(n) ==
    LET c == parentFirstEdges(n.edges, 1) IN
    IF ~isLeaf(n) THEN [ret |-> c.all, calls |-> c.calls]
    ELSE [ret |-> n.leaf,
          calls |-> <<[parent |-> n.leaf[1], children |-> c.all]>> \o c.calls]

Walk_post_parentFirst(t) == walkParentFirst(t.root).calls

\* a walk in which a node with an entry returns itself and all it collected
RECURSIVE walkAllBelow(_)
RECURSIVE allBelowEdges(_, _)
allBelowEdges(es, i) ==
    IF i > Len(es) THEN [all |-> <<>>, calls |-> <<>>]
    ELSE LET r == walkAllBelow(es[i].node)
             q == allBelowEdges(es, i + 1)
         IN  [all |-> r.ret \o q.all, calls |-> r.calls \o q.calls]

walkAllBelow(n) ==
    LET c == allBelowEdges(n.edges, 1) IN
    IF ~isLeaf(n) THEN [ret |-> c.all, calls |-> c.calls]
    ELSE [ret |-> n.leaf \o c.all,
          calls |-> Append(c.calls, [parent |-> n.leaf[1], children |-> c.all])]

Walk_post_allBelow(t) == walkAllBelow(t.root).calls

Walk_post(t) == recursiveWalk_postOrder(t.root).calls

\* ------------------------------------------------------------ Minimum, Maximum
Miss3 == [key |-> <<>>, val |-> Nil, ok |-> FALSE]

RECURSIVE minimumAt(_)
minimumAt(n) ==
    IF isLeaf(n) THEN [key |-> n.leaf[1].Key, val |-> n.leaf[1].Val, ok |-> TRUE]
    ELSE IF Len(n.edges) > 0 THEN minimumAt(n.edges[1].node)
    ELSE Miss3

Minimum(t) == minimumAt(t.root)

RECURSIVE maximumAt(_)
maximumAt(n) ==
    IF Len(n.edges) > 0 THEN maximumAt(n.edges[Len(n.edges)].node)
    ELSE IF isLeaf(n) THEN [key |-> n.leaf[1].Key, val |-> n.leaf[1].Val, ok |-> TRUE]
    ELSE Miss3

Maximum(t) == maximumAt(t.root)

\* ------------------------------------------------------------ Walk, WalkPath
\* the sequence of leaves the visitor is called with; the visitor returns
\* true on the keys of stop
\* a Walk that drops the abort of a child of the root and goes on with the
\* root's next edge
RECURSIVE walkEdgesNoAbort(_, _, _)
walkEdgesNoAbort(es, i, stop) ==
    IF i > Len(es) THEN <<>>
    ELSE recursiveWalk(es[i].node, stop).visited \o walkEdgesNoAbort(es, i + 1, stop)

Walk_dropsAbort(t, stop) ==
    IF isLeaf(t.root) /\ t.root.leaf[1].Key \in stop THEN t.root.leaf
    ELSE t.root.leaf \o walkEdgesNoAbort(t.root.edges, 1, stop)

Walk(t, stop) == recursiveWalk(t.root, stop).visited

RECURSIVE walkPathAt(_, _, _)
walkPathAt(n, search, stop) ==
    IF isLeaf(n) /\ n.leaf[1].Key \in stop THEN n.leaf
    ELSE IF Len(search) = 0 THEN n.leaf
    ELSE
    LET idx == edgeIdx(n, search[1]) IN
    IF idx = 0 THEN n.leaf
    ELSE IF HasPrefix(search, n.edges[idx].node.prefix)
         THEN n.leaf \o walkPathAt(n.edges[idx].node,
                                   From(search, Len(n.edges[idx].node.prefix)), stop)
         ELSE n.leaf

\* a WalkPath that ignores what the visitor returns
WalkPath_ignoresStop(t, path, stop) == walkPathAt(t.root, path, {})

WalkPath(t, path, stop) == walkPathAt(t.root, path, stop)

\* ------------------------------------------------------------ the program
VARIABLES root,      \* Tree.root
          size,      \* Tree.size
          ref,       \* the reference map the same calls drive: Nil for an absent key
          last,      \* the last mutating call, its argument and what it returned
          panicked   \* a call reached panic("replacing missing edge")

vars == <<root, size, ref, last, panicked>>

tree == [root |-> root, size |-> size]

Stored(k) == ref[k] # Nil
StoredKeys == {k \in DOMAIN ref : Stored(k)}

Init ==
    /\ root = New.root
    /\ size = New.size
    /\ ref = [k \in Keys |-> Nil]
    /\ last = [op |-> "New", key |-> <<>>, arg |-> Nil, val |-> Nil, ok |-> FALSE,
               count |-> 0, inside |-> FALSE]
    /\ panicked = FALSE

InsertOp(k, v) ==
    /\ ~panicked
    /\ Stored(k) \/ Cardinality(StoredKeys) < MaxSize
    /\ LET r == Insert(tree, k, v)
       IN  /\ root' = r.root
           /\ size' = r.size
           /\ panicked' = r.panic
           /\ last' = [op |-> "Insert", key |-> k, arg |-> v, val |-> r.val, ok |-> r.ok,
                       count |-> 0, inside |-> FALSE]
    /\ ref' = [ref EXCEPT ![k] = v]

DeleteOp(k) ==
    /\ ~panicked
    /\ LET r == Delete(tree, k)
       IN  /\ root' = r.root
           /\ size' = r.size
           /\ last' = [op |-> "Delete", key |-> k, arg |-> Nil, val |-> r.val, ok |-> r.ok,
                       count |-> 0, inside |-> FALSE]
    /\ ref' = [ref EXCEPT ![k] = Nil]
    /\ UNCHANGED panicked

DeletePrefixOp(p) ==
    /\ ~panicked
    /\ LET r == DeletePrefix(tree, p)
       IN  /\ root' = r.root
           /\ size' = r.size
           /\ last' = [op |-> "DeletePrefix", key |-> p, arg |-> Nil, val |-> Nil,
                       ok |-> FALSE, count |-> r.count,
                       inside |-> endsInsideEdge(root, p)]
    /\ ref' = [k \in DOMAIN ref |-> IF HasPrefix(k, p) THEN Nil ELSE ref[k]]
    /\ UNCHANGED panicked

Next ==
    \/ \E k \in Keys, v \in Vals : InsertOp(k, v)
    \/ \E k \in Keys : DeleteOp(k)
    \/ \E p \in Keys : DeletePrefixOp(p)

Spec == Init /\ [][Next]_vars

\* The same program driven with keys over three symbols: '0', '1' and 'a',
\* all under the first symbol '0'.
Alphabet3 == Alphabet \cup {97}
Keys3 == {<<>>} \cup {<<Zero>> \o k : k \in UNION {[1..i -> Alphabet3] : i \in 0..(MaxLen - 1)}}

Init3 ==
    /\ root = New.root
    /\ size = New.size
    /\ ref = [k \in Keys3 |-> Nil]
    /\ last = [op |-> "New", key |-> <<>>, arg |-> Nil, val |-> Nil, ok |-> FALSE,
               count |-> 0, inside |-> FALSE]
    /\ panicked = FALSE

Next3 ==
    \/ \E k \in Keys3, v \in Vals : InsertOp(k, v)
    \/ \E k \in Keys3 : DeleteOp(k)
    \/ \E p \in Keys3 : DeletePrefixOp(p)

Spec3 == Init3 /\ [][Next3]_vars

\* ------------------------------------------------------------ properties
Found(v) == [val |-> v, ok |-> TRUE]
NotFound == [val |-> Nil, ok |-> FALSE]
\* the (value, found) pair a call returned
Ret(d) == [val |-> d.val, ok |-> d.ok]

\* the strings the read operations are queried with: one symbol longer than
\* any key the environment stores
Queries == StrUpTo(MaxLen + 1)

RefGet(q) == IF q \in Keys /\ Stored(q) THEN Found(ref[q]) ELSE NotFound
IsStrictPrefix(a, b) == Len(a) < Len(b) /\ HasPrefix(b, a)

K100010 == <<One, Zero, Zero, Zero, One, Zero>>
K1000101 == K100010 \o <<One>>
K1000100 == K100010 \o <<Zero>>
SplitKeys == {K100010, K1000101, K1000100}
SplitTree == Insert(Insert(Insert(New, K100010, 1), K1000101, 1), K1000100, 1)

\* the splitting example: Get finds the three keys and none of their other prefixes
SplitExample ==
    \A k \in SplitKeys : \A i \in 0..Len(k) :
        Get(SplitTree, Upto(k, i)) =
            IF Upto(k, i) \in SplitKeys THEN Found(1) ELSE NotFound

\* C1: after any sequence of Insert, Delete and DeletePrefix, Get agrees with
\* the reference map on every query (found with the stored value exactly for
\* the stored keys, (nil, false) for everything else, prefixes of stored keys
\* and split nodes included); Insert(k, v) then Get(k) is (v, true); the
\* splitting example of the specification holds.
C1_GetAgreesWithReference ==
    /\ \A q \in Queries : Get(tree, q) = RefGet(q)
    /\ last.op = "Insert" => Get(tree, last.key) = Found(last.arg)
    /\ SplitExample

\* an Insert has just split an edge: the root has a child without an entry and
\* with two children, and Get misses that child's key
C1_Witness ==
    /\ last.op = "Insert" /\ ~last.ok
    /\ Get(tree, last.key) = Found(last.arg)
    /\ \E i \in 1..Len(root.edges) :
          /\ ~isLeaf(root.edges[i].node)
          /\ Len(root.edges[i].node.edges) = 2
          /\ Get(tree, root.edges[i].node.prefix) = NotFound

RECURSIVE CountLeaves(_)
RECURSIVE CountLeavesIn(_, _)
CountLeavesIn(es, i) ==
    IF i > Len(es) THEN 0 ELSE CountLeaves(es[i].node) + CountLeavesIn(es, i + 1)
CountLeaves(n) == (IF isLeaf(n) THEN 1 ELSE 0) + CountLeavesIn(n.edges, 1)

\* C2: Len() is the number of nodes that carry an entry and the number of
\* distinct stored keys in every reachable state, and an Insert of a stored
\* key replaces the value and leaves Len() as it was.
C2_LenCountsEntries ==
    /\ [](Len_(tree) = CountLeaves(root) /\ Len_(tree) = Cardinality(StoredKeys))
    /\ [][(last'.op = "Insert" /\ Stored(last'.key))
            => (size' = size /\ last'.ok /\ last'.val = ref[last'.key]
                /\ Get(tree', last'.key) = Found(last'.arg))]_vars

\* a stored key was inserted again with another value while two entries are stored
C2_Witness ==
    /\ last.op = "Insert" /\ last.ok /\ last.val # last.arg
    /\ size = 2 /\ CountLeaves(root) = 2

\* C3: in every reachable tree, Delete of a stored key returns its value and
\* true, Get of the key then misses, and a second Delete returns (nil, false);
\* the Delete calls the environment made behave so.
C3_DeleteThenGet ==
    /\ \A k \in StoredKeys :
          LET d == Delete(tree, k)
          IN  /\ Ret(d) = Found(ref[k])
              /\ Get(d, k).ok = FALSE
              /\ LET d2 == Delete(d, k)
                 IN  Ret(d2) = NotFound
    /\ (last.op = "Delete" /\ last.ok) =>
          /\ last.val \in Vals
          /\ Get(tree, last.key).ok = FALSE
          /\ Delete(tree, last.key).ok = FALSE

\* a Delete removed the entry of a node that has children, other entries remain
C3_Witness ==
    /\ last.op = "Delete" /\ last.ok /\ last.val \in Vals
    /\ \E k \in StoredKeys : IsStrictPrefix(last.key, k)
    /\ Get(tree, last.key) = NotFound

K1 == <<One>>
K00 == <<Zero, Zero>>
K000 == <<Zero, Zero, Zero>>
K001 == <<Zero, Zero, One>>
K0011 == <<Zero, Zero, One, One>>

\* three entries under "00" and one beside them
ThreeUnder00 == Insert(Insert(Insert(Insert(New, K1, 1), K00, 1), K000, 1), K001, 1)

DeletePrefixExample ==
    LET d == DeletePrefix(ThreeUnder00, K00)
    IN  /\ d.count = 3
        /\ Len_(d) = Len_(ThreeUnder00) - 3
        /\ Get(d, K1) = Found(1)
        /\ DeletePrefix(d, K00).count = 0

Only0011 == Insert(New, K0011, 1)

\* C5 as the specification states it: a DeletePrefix whose prefix ends
\* strictly inside an edge's prefix returns 0 and removes nothing.
C5_InsideEdgeReturnsZero ==
    [][(last'.op = "DeletePrefix" /\ last'.inside)
          => (last'.count = 0 /\ \A k \in Keys : Get(tree', k) = Get(tree, k))]_vars

\* C5 amended: a prefix p that ends strictly inside an edge's prefix is
\* handled as if it ended on that edge's child: DeletePrefix(p) removes every
\* stored key that has p as a prefix and returns their number, keeps every
\* other key, and so returns 0 only when no stored key has p as a prefix.  With
\* only "0011" stored, DeletePrefix("00") returns 1 and Get("0011") misses.
C5_InsideEdgeDeletesSubtree ==
    /\ \A p \in Queries :
          endsInsideEdge(root, p) =>
              LET d == DeletePrefix(tree, p)
                  under == {k \in StoredKeys : HasPrefix(k, p)}
              IN  /\ d.count = Cardinality(under)
                  /\ Len_(d) = Len_(tree) - Cardinality(under)
                  /\ \A k \in StoredKeys :
                        Get(d, k) = IF k \in under THEN NotFound ELSE Found(ref[k])
    /\ (last.op = "DeletePrefix" /\ last.inside) =>
          /\ \A k \in Keys : HasPrefix(k, last.key) => Get(tree, k) = NotFound
          /\ last.count <= MaxSize
    /\ DeletePrefix(Only0011, K00).count = 1
    /\ Get(DeletePrefix(Only0011, K00), K0011) = NotFound

\* a DeletePrefix whose prefix ended inside an edge removed an entry, and
\* another entry is left
C5_Witness ==
    /\ last.op = "DeletePrefix" /\ last.inside /\ last.count >= 1
    /\ size >= 1

\* byte-wise order of Go strings
LexLeq(a, b) ==
    \/ HasPrefix(b, a)
    \/ \E i \in 1..Min(Len(a), Len(b)) :
          a[i] < b[i] /\ \A j \in 1..(i - 1) : a[j] = b[j]

RECURSIVE SortKeys(_)
SortKeys(S) ==
    IF S = {} THEN <<>>
    ELSE LET m == CHOOSE x \in S : \A y \in S : LexLeq(x, y)
         IN  <<m>> \o SortKeys(S \ {m})

StoredPrefixesOf(q) == {k \in StoredKeys : HasPrefix(q, k)}
Longest(S) == CHOOSE x \in S : \A y \in S : Len(y) <= Len(x)

\* C6: in every reachable tree and for every query s, LongestPrefix(s) returns
\* the longest stored key that is a prefix of s or s itself, with its value and
\* true (the empty key when it is stored and nothing longer matches), and
\* ("", nil, false) exactly when no stored key is a prefix of s.
C6_LongestPrefix ==
    \A q \in Queries :
        LongestPrefix(tree, q) =
            IF StoredPrefixesOf(q) = {}
            THEN [key |-> <<>>, val |-> Nil, ok |-> FALSE]
            ELSE [key |-> Longest(StoredPrefixesOf(q)),
                  val |-> ref[Longest(StoredPrefixesOf(q))], ok |-> TRUE]

\* the empty key and a longer key are stored; one query matches the longer key
\* as a strict prefix, another falls back to the empty key, and a Delete or
\* DeletePrefix has acted
C6_Witness ==
    /\ last.op \in {"Delete", "DeletePrefix"}
    /\ Stored(<<>>)
    /\ \E q \in Queries :
          /\ LongestPrefix(tree, q).ok
          /\ LongestPrefix(tree, q).key # <<>>
          /\ LongestPrefix(tree, q).key # q
    /\ \E q \in Queries :
          q # <<>> /\ LongestPrefix(tree, q) = [key |-> <<>>, val |-> ref[<<>>], ok |-> TRUE]

StoredUnder(p) == {k \in StoredKeys : HasPrefix(k, p)}
LeavesOf(ks) == [i \in 1..Len(ks) |-> [Key |-> ks[i], Val |-> ref[ks[i]]]]

\* C7: in every reachable tree and for every prefix p, WalkPrefix(p) with a
\* visitor that never stops is called once for each stored key that has p as a
\* prefix, with its value, for nothing else, in ascending byte order; also
\* when p ends inside an edge's prefix.
C7_WalkPrefix ==
    \A p \in Queries :
        WalkPrefix(tree, p, {}) = LeavesOf(SortKeys(StoredUnder(p)))

\* after a Delete or DeletePrefix, three keys are stored, the walk of the
\* empty prefix visits them all, and a prefix that ends inside an edge has a
\* stored key under it that its walk visits
C7_Witness ==
    /\ last.op \in {"Delete", "DeletePrefix"}
    /\ Len(WalkPrefix(tree, <<>>, {})) = 3
    /\ \E p \in Queries :
          /\ endsInsideEdge(root, p)
          /\ Len(WalkPrefix(tree, p, {})) >= 1
    /\ \E p \in Queries :
          p # <<>> /\ ~endsInsideEdge(root, p) /\ Len(WalkPrefix(tree, p, {})) = 2

\* the visitor's calls of a post-order walk whose parent is the key k
CallsFor(calls, k) == {i \in 1..Len(calls) : calls[i].parent.Key = k}
ChildKeys(call) == {call.children[j].Key : j \in 1..Len(call.children)}

K10 == <<One, Zero>>
K100 == <<One, Zero, Zero>>
Chain == Insert(Insert(Insert(New, K1, 1), K10, 1), K100, 1)

Extensions(k) == {x \in StoredKeys : IsStrictPrefix(k, x)}
\* the stored extensions of k with no stored key strictly between k and them
NearestExtensions(k) ==
    {x \in Extensions(k) : ~\E y \in Extensions(k) : IsStrictPrefix(y, x)}

\* C8 as the specification states it: the call for a stored key k receives
\* every other stored key that is a strict extension of k, and nothing else
\* (with three stored keys, each a strict prefix of the next, the call for the
\* shortest receives the other two).
C8_ChildrenAreAllExtensions ==
    \A k \in StoredKeys :
        \A i \in CallsFor(Walk_post(tree), k) :
            ChildKeys(Walk_post(tree)[i]) = Extensions(k)

\* C8 amended: the call for a stored key k receives exactly the nearest stored
\* extensions of k: the stored keys that strictly extend k with no other
\* stored key strictly between k and them, each once (a node with an entry
\* returns only itself to its parent).  With "1", "10" and "100" stored the
\* call for "1" receives only "10", and the call for "10" receives "100".
C8_ChildrenAreNearestExtensions ==
    /\ \A k \in StoredKeys :
          /\ Cardinality(CallsFor(Walk_post(tree), k)) = 1
          /\ \A i \in CallsFor(Walk_post(tree), k) :
                /\ ChildKeys(Walk_post(tree)[i]) = NearestExtensions(k)
                /\ Len(Walk_post(tree)[i].children) = Cardinality(NearestExtensions(k))
                /\ \A j \in 1..Len(Walk_post(tree)[i].children) :
                      Walk_post(tree)[i].children[j].Val
                          = ref[Walk_post(tree)[i].children[j].Key]
    /\ \A i \in CallsFor(Walk_post(Chain), K1) :
          ChildKeys(Walk_post(Chain)[i]) = {K10}
    /\ \A i \in CallsFor(Walk_post(Chain), K10) :
          ChildKeys(Walk_post(Chain)[i]) = {K100}
    /\ CallsFor(Walk_post(Chain), K1) # {} /\ CallsFor(Walk_post(Chain), K10) # {}

\* a chain of three stored keys, each a strict prefix of the next: the
\* shortest has two stored extensions and one nearest extension
C8_Witness ==
    \E k \in StoredKeys :
        /\ Cardinality(Extensions(k)) = 2
        /\ Cardinality(NearestExtensions(k)) = 1
        /\ CallsFor(Walk_post(tree), k) # {}

\* C9: in every reachable tree Walk_post calls the visitor exactly once with
\* parent = k for each stored key k (with its value) and for nothing else, and
\* the call for a key comes before the call for each stored strict prefix of
\* it; for "100010", "1000101", "1000100" the call for "100010" receives the
\* other two and the other calls receive empty lists.
C9_PostOrder ==
    LET calls == Walk_post(tree) IN
    /\ Len(calls) = Cardinality(StoredKeys)
    /\ \A k \in StoredKeys : Cardinality(CallsFor(calls, k)) = 1
    /\ \A i \in 1..Len(calls) :
          /\ calls[i].parent.Key \in StoredKeys
          /\ calls[i].parent.Val = ref[calls[i].parent.Key]
    /\ \A i, j \in 1..Len(calls) :
          IsStrictPrefix(calls[i].parent.Key, calls[j].parent.Key) => j < i
    /\ LET ex == Walk_post(SplitTree) IN
       /\ Len(ex) = 3
       /\ \A k \in SplitKeys : Cardinality(CallsFor(ex, k)) = 1
       /\ \A i \in 1..Len(ex) :
             ChildKeys(ex[i]) = IF ex[i].parent.Key = K100010
                                THEN {K1000101, K1000100} ELSE {}
       /\ \A i \in 1..Len(ex) :
             Len(ex[i].children) = Cardinality(ChildKeys(ex[i]))

\* after a Delete or DeletePrefix, three entries are stored, one a strict
\* prefix of another, and the tree holds a node without an entry
C9_Witness ==
    /\ last.op \in {"Delete", "DeletePrefix"}
    /\ Len(Walk_post(tree)) = 3
    /\ \E k1, k2 \in StoredKeys : IsStrictPrefix(k1, k2)
    /\ \E i \in 1..Len(root.edges) : ~isLeaf(root.edges[i].node)

FnipMiss == [key |-> <<>>, ok |-> FALSE]

\* the stored strict extensions of a that continue with the symbol b
ExtensionsVia(a, b) == {x \in Extensions(a) : x[Len(a) + 1] = b}

\* C10: in every reachable tree over {'0','1'} and for every query s, with A
\* the longest-prefix match of s: FirstNonIncludedPrefix(s) is (A, true) when
\* no stored key strictly extends A, (A + complement(b), true) when all stored
\* strict extensions of A continue with b, and ("", false) when there is no
\* match or stored extensions continue with both symbols.
C10_FirstNonIncludedPrefix ==
    \A s \in Queries :
        LET lp == LongestPrefix(tree, s)
            r == FirstNonIncludedPrefix(tree, s)
        IN  IF ~lp.ok THEN r = FnipMiss
            ELSE IF Extensions(lp.key) = {} THEN r = [key |-> lp.key, ok |-> TRUE]
            ELSE IF ExtensionsVia(lp.key, Zero) = {}
                 THEN r = [key |-> lp.key \o <<Zero>>, ok |-> TRUE]
            ELSE IF ExtensionsVia(lp.key, One) = {}
                 THEN r = [key |-> lp.key \o <<One>>, ok |-> TRUE]
            ELSE r = FnipMiss

\* the key of the tree's only one-edge match has a label outside {'0', '1'}
NonBinarySingleChild(t, s) ==
    LET r == longestPrefixNode(t, s)
    IN  /\ r.ok
        /\ Len(r.node[1].edges) = 1
        /\ r.node[1].edges[1].label \notin {Zero, One}

\* C11: whenever the node FirstNonIncludedPrefix matches has a single child
\* reached by a label other than '0' or '1', it returns ("", false).
C11_RejectsNonBinary ==
    \A s \in DOMAIN ref :
        NonBinarySingleChild(tree, s) => FirstNonIncludedPrefix(tree, s) = FnipMiss

Greatest(S) == CHOOSE x \in S : \A y \in S : LexLeq(y, x)
Smallest(S) == CHOOSE x \in S : \A y \in S : LexLeq(x, y)

\* C12: after any sequence of Insert, Delete and DeletePrefix, Maximum()
\* finds an entry exactly when Len() > 0, and then returns the greatest stored
\* key in byte order with its value.
C12_Maximum ==
    /\ Maximum(tree).ok <=> Len_(tree) > 0
    /\ Maximum(tree).ok =>
          /\ StoredKeys # {}
          /\ Maximum(tree).key = Greatest(StoredKeys)
          /\ Maximum(tree).val = ref[Greatest(StoredKeys)]

\* C13: after any sequence of Insert, Delete and DeletePrefix, Minimum()
\* finds an entry exactly when Len() > 0, and then returns the smallest stored
\* key in byte order with its value.
C13_Minimum ==
    /\ Minimum(tree).ok <=> Len_(tree) > 0
    /\ Minimum(tree).ok =>
          /\ StoredKeys # {}
          /\ Minimum(tree).key = Smallest(StoredKeys)
          /\ Minimum(tree).val = ref[Smallest(StoredKeys)]

\* the calls a visitor receives from a walk that would visit seq: all of seq
\* up to and including the first leaf on which the visitor returns true
UpToFirstStop(seq, stop) ==
    LET hits == {i \in 1..Len(seq) : seq[i].Key \in stop}
    IN  IF hits = {} THEN seq
        ELSE SubSeq(seq, 1, CHOOSE i \in hits : \A j \in hits : i <= j)

\* C14: in every reachable tree, for every key and every visitor, WalkPath
\* calls the visitor on the stored keys that are a prefix of the key or the
\* key itself (the empty key included), each once with its value, shortest
\* first, and on nothing else; after a call on which the visitor returns true
\* it makes no further call.
C14_WalkPath ==
    \A q \in Queries : \A stop \in SUBSET StoredKeys :
        WalkPath(tree, q, stop)
            = UpToFirstStop(LeavesOf(SortKeys(StoredPrefixesOf(q))), stop)

\* the empty key, a key of one symbol and a key of two symbols are stored, each
\* a prefix of the next, and the visitor stops the walk of the longest at the
\* second of them
C14_Witness ==
    \E q \in StoredKeys :
        /\ Cardinality(StoredPrefixesOf(q)) = 3
        /\ Len(WalkPath(tree, q, {})) = 3
        /\ \E k \in StoredPrefixesOf(q) : Len(WalkPath(tree, q, {k})) = 2

\* C15: in every reachable tree and for every visitor, Walk calls the visitor
\* on the stored keys in ascending byte order, each once with its value, up to
\* and including the first call on which the visitor returns true, and makes
\* no call after it; a visitor that never returns true sees every stored key.
\* Walk assigns to no field of the tree.
C15_Walk ==
    \A stop \in SUBSET StoredKeys :
        Walk(tree, stop) = UpToFirstStop(LeavesOf(SortKeys(StoredKeys)), stop)

\* three entries are stored under two edges of the root after a Delete or
\* DeletePrefix, and a visitor that stops at the second key is called twice
C15_Witness ==
    /\ last.op \in {"Delete", "DeletePrefix"}
    /\ Len(Walk(tree, {})) = 3
    /\ Len(root.edges) = 2
    /\ \E k \in StoredKeys : Len(Walk(tree, {k})) = 2

\* how Delete's descent for the key ends
RECURSIVE deleteEnds(_, _)
deleteEnds(n, search) ==
    IF Len(search) = 0 THEN (IF isLeaf(n) THEN "stored" ELSE "no entry")
    ELSE
    LET idx == edgeIdx(n, search[1]) IN
    IF idx = 0 THEN "no edge"
    ELSE IF HasPrefix(search, n.edges[idx].node.prefix)
         THEN deleteEnds(n.edges[idx].node, From(search, Len(n.edges[idx].node.prefix)))
         ELSE "mismatch"

\* C16: in every reachable tree, Delete of a key that is not stored returns
\* (nil, false) and leaves root (nodes, prefixes, edges, entries) and Len()
\* as they are, whichever way the descent ends.
C16_DeleteMissChangesNothing ==
    \A k \in Queries :
        deleteEnds(root, k) # "stored" =>
            /\ ~(k \in StoredKeys)
            /\ Delete(tree, k) = [root |-> root, size |-> size, val |-> Nil, ok |-> FALSE]

\* a Delete has just missed on a node without an entry, and in the tree it
\* left the two other ways to miss occur as well
C16_Witness ==
    /\ last.op = "Delete" /\ ~last.ok
    /\ size >= 2
    /\ deleteEnds(root, last.key) = "no entry"
    /\ \E k \in Queries : deleteEnds(root, k) = "no edge"
    /\ \E k \in Queries : deleteEnds(root, k) = "mismatch"

\* the nodes below n (n excluded)
RECURSIVE NodesBelow(_)
NodesBelow(n) ==
    UNION {{n.edges[i].node} \cup NodesBelow(n.edges[i].node) : i \in 1..Len(n.edges)}

\* C17: after any sequence of Insert, Delete and DeletePrefix, no non-root
\* node has exactly one child and no stored entry.
C17_NoSingleChildWithoutEntry ==
    \A n \in NodesBelow(root) : ~(Len(n.edges) = 1 /\ ~isLeaf(n))

\* C18: after every Insert, Delete and DeletePrefix, every non-root node has
\* a stored entry or at least two children (no emptied node stays attached).
C18_EntryOrTwoChildren ==
    \A n \in NodesBelow(root) : isLeaf(n) \/ Len(n.edges) >= 2

\* C19: no sequence of operations reaches panic("replacing missing edge"),
\* and every mergeChild is called on a node with exactly one edge.
C19_NoPanic ==
    /\ ~panicked
    /\ \A n \in {root} \cup NodesBelow(root) : ~isBadMerge(n)

\* an Insert has just split an edge below the root (updateEdge replaced the
\* edge of the node it split) and nothing panicked
C19_Witness ==
    /\ last.op = "Insert" /\ ~last.ok /\ ~panicked
    /\ Len(last.key) = MaxLen
    /\ \E i \in 1..Len(root.edges) :
          /\ IsStrictPrefix(root.edges[i].node.prefix, last.key)
          /\ Len(root.edges[i].node.edges) = 2

\* the subtree of n, reached along path, is consistent: entries carry the key
\* of their path, labels ascend strictly and are the first symbol of the
\* child's prefix
RECURSIVE Consistent(_, _)
Consistent(n, path) ==
    /\ isLeaf(n) => n.leaf[1].Key = path \o n.prefix
    /\ \A i \in 1..Len(n.edges) :
          /\ Len(n.edges[i].node.prefix) > 0
          /\ n.edges[i].label = n.edges[i].node.prefix[1]
          /\ i > 1 => n.edges[i - 1].label < n.edges[i].label
          /\ Consistent(n.edges[i].node, path \o n.prefix)

\* C20: after any sequence of Insert, Delete and DeletePrefix, every entry's
\* Key is the concatenation of the prefixes from the root to its node, the
\* root's prefix is empty, the labels of every node are unique and ascending,
\* and every label is the first symbol of its child's prefix.
C20_KeysMatchPaths ==
    /\ root.prefix = <<>>
    /\ Consistent(root, <<>>)

\* a Delete has just merged a node into its only child: the entry of a
\* two-symbol key sits directly below the root and extends the deleted key
C20_Witness ==
    /\ last.op = "Delete" /\ last.ok /\ Len(last.key) = 1
    /\ \E i \in 1..Len(root.edges) :
          /\ isLeaf(root.edges[i].node)
          /\ Len(root.edges[i].node.prefix) = 2
          /\ IsStrictPrefix(last.key, root.edges[i].node.leaf[1].Key)

====
